---- MODULE Spec2Model ----
(***************************************************************************)
(* Model of chamber_app.py: calculate_parts_fitting and the layout part    *)
(* of visualize_chamber_3d.                                                *)
(*                                                                         *)
(* A Python value is a record [kind, num, text]: a number, a string (a     *)
(* sequence of one-character strings) or None.  A dict is a function from  *)
(* the keys it holds to values.  Lengths are whole millimetres; a value    *)
(* the code halves is kept doubled (names ending in 2).                    *)
(***************************************************************************)
EXTENDS Integers, Sequences, FiniteSets

VARIABLES input_data, arg, ret, locals, prev_arg, prev_ret, layout, op,
          prev_op, calls

vars ==
  <<input_data, arg, ret, locals, prev_arg, prev_ret, layout, op, prev_op,
    calls>>

\* ---------------------------------------------------------------- bounds

MaxCalls == 2

\* ---------------------------------------------------------------- values

Num(n) == [kind |-> "num", num |-> n, text |-> <<>>]
Str(t) == [kind |-> "str", num |-> 0, text |-> t]
NoneVal == [kind |-> "none", num |-> 0, text |-> <<>>]

SF50 == <<"S", "F", "5", "0">>
SF100 == <<"S", "F", "1", "0", "0">>
PURE == <<"P", "U", "R", "E">>

NumericKeys ==
  <<"part_width", "part_depth", "part_height",
    "spacing_width", "spacing_depth", "spacing_height">>

Whitespace == {" ", "\t", "\n"}

RECURSIVE LStrip(_)
LStrip(s) ==
  IF s /= <<>> /\ Head(s) \in Whitespace THEN LStrip(Tail(s)) ELSE s

RECURSIVE RStrip(_)
RStrip(s) ==
  IF s /= <<>> /\ s[Len(s)] \in Whitespace
  THEN RStrip(SubSeq(s, 1, Len(s) - 1))
  ELSE s

\* str.strip()
Strip(s) == RStrip(LStrip(s))

\* dict.get(key, default)
Get(d, k, default) == IF k \in DOMAIN d THEN d[k] ELSE default

DigitValue(c) ==
  CASE c = "0" -> 0 [] c = "1" -> 1 [] c = "2" -> 2 [] c = "3" -> 3
    [] c = "4" -> 4 [] c = "5" -> 5 [] c = "6" -> 6 [] c = "7" -> 7
    [] c = "8" -> 8 [] c = "9" -> 9 [] OTHER -> -1

RECURSIVE ParseDigits(_, _)
ParseDigits(s, acc) ==
  IF s = <<>> THEN acc
  ELSE ParseDigits(Tail(s), 10 * acc + DigitValue(Head(s)))

\* float(v): a number as it is, a string of decimal digits (surrounding
\* whitespace ignored) as the number it spells, any other string a
\* ValueError, None a TypeError.
Float(v) ==
  IF v.kind = "num" THEN [ok |-> TRUE, exc |-> "", num |-> v.num]
  ELSE IF v.kind = "none" THEN [ok |-> FALSE, exc |-> "TypeError", num |-> 0]
  ELSE LET t == Strip(v.text) IN
       IF t /= <<>> /\ \A i \in 1..Len(t) : DigitValue(t[i]) >= 0
       THEN [ok |-> TRUE, exc |-> "", num |-> ParseDigits(t, 0)]
       ELSE [ok |-> FALSE, exc |-> "ValueError", num |-> 0]

\* a // b on floats holding whole numbers, b /= 0: the floor of a / b
FloorDiv(a, b) == IF b > 0 THEN a \div b ELSE (0 - a) \div (0 - b)

Min(a, b) == IF a < b THEN a ELSE b

\* ------------------------------------------------- calculate_parts_fitting

ChamberWidth == 400
ChamberHeight == 400
SF50Depth == 300
SF100Depth == 600
BaseClearance == 50
PureClearanceBonus == 50
PureSpacingBonus == 10
ShelfCap == 5
ExtendedDepthBonus == 300

MsgMachineType == "Invalid machine_type. Must be 'SF50' or 'SF100'."
MsgNumeric == "All input values must be numeric."

CountKeys ==
  {"total_parts_original", "total_parts_extended",
   "parts_along_height_original", "parts_along_height_extended",
   "parts_along_width_original", "parts_along_depth_original"}

NoCounts ==
  [total_parts_original |-> 0, total_parts_extended |-> 0,
   parts_along_height_original |-> 0, parts_along_height_extended |-> 0,
   parts_along_width_original |-> 0, parts_along_depth_original |-> 0]

NoParts == [total |-> 0, width |-> 0, depth |-> 0, height |-> 0]

\* the local variables of a call that did not get as far as setting them
NoLocals ==
  [reached |-> "none",
   effective_chamber_width |-> 0, effective_chamber_depth |-> 0,
   effective_chamber_height |-> 0,
   part_width |-> 0, part_depth |-> 0, part_height |-> 0,
   spacing_width |-> 0, spacing_depth |-> 0, spacing_height |-> 0,
   original |-> NoParts, extended |-> NoParts]

\* What a call does: it returns a dict (its keys, its error message, its
\* counts) or raises an exception.
ReturnError(msg) ==
  [kind |-> "return", exc |-> "", keys |-> {"error"}, error |-> msg,
   plot_status |-> FALSE, counts |-> NoCounts]

ReturnCounts(c) ==
  [kind |-> "return", exc |-> "", keys |-> CountKeys, error |-> "",
   plot_status |-> FALSE, counts |-> c]

Raise(e) ==
  [kind |-> "raise", exc |-> e, keys |-> {}, error |-> "",
   plot_status |-> FALSE, counts |-> NoCounts]

NoCall ==
  [kind |-> "none", exc |-> "", keys |-> {}, error |-> "",
   plot_status |-> FALSE, counts |-> NoCounts]

\* ChamberOf with the final else dropped: whatever is not SF50 is an SF100
ChamberOfNoElse(machine_type) ==
  IF machine_type = SF50
  THEN [known |-> TRUE, width |-> ChamberWidth, depth |-> SF50Depth,
        height |-> ChamberHeight]
  ELSE [known |-> TRUE, width |-> ChamberWidth, depth |-> SF100Depth,
        height |-> ChamberHeight]

\* lines 26-35 and 113-122: the chamber of a machine type
ChamberOf(machine_type) ==
  IF machine_type = SF50
  THEN [known |-> TRUE, width |-> ChamberWidth, depth |-> SF50Depth,
        height |-> ChamberHeight]
  ELSE IF machine_type = SF100
  THEN [known |-> TRUE, width |-> ChamberWidth, depth |-> SF100Depth,
        height |-> ChamberHeight]
  ELSE [known |-> FALSE, width |-> 0, depth |-> 0, height |-> 0]

\* ClearanceOf with the bonus added whatever the solvent
ClearanceOfAlwaysBonus(solvent) ==
  [width |-> BaseClearance + PureClearanceBonus,
   depth |-> BaseClearance + PureClearanceBonus,
   height |-> BaseClearance + PureClearanceBonus]

\* lines 38-47 and 125-133: the clearance for a solvent
ClearanceOf(solvent) ==
  IF solvent = PURE
  THEN [width |-> BaseClearance + PureClearanceBonus,
        depth |-> BaseClearance + PureClearanceBonus,
        height |-> BaseClearance + PureClearanceBonus]
  ELSE [width |-> BaseClearance, depth |-> BaseClearance,
        height |-> BaseClearance]

\* input_data[k] += n
AddInPlace(d, k, n) ==
  IF k \notin DOMAIN d THEN [exc |-> "KeyError", data |-> d]
  ELSE IF d[k].kind /= "num" THEN [exc |-> "TypeError", data |-> d]
  ELSE [exc |-> "", data |-> [d EXCEPT ![k] = Num(d[k].num + n)]]

\* line 49, given what line 48 did
AdjustDepth(w) ==
  IF w.exc /= "" THEN w
  ELSE AddInPlace(w.data, "spacing_depth", PureSpacingBonus)

\* AdjustSpacing without lines 48-49
AdjustSpacingNone(d, solvent) == [exc |-> "", data |-> d]

\* lines 44, 48-49: for PURE the caller's dict gets wider spacings
AdjustSpacing(d, solvent) ==
  IF solvent /= PURE THEN [exc |-> "", data |-> d]
  ELSE AdjustDepth(AddInPlace(d, "spacing_width", PureSpacingBonus))

\* the conversions f of the six fields, the first failure ending them
FirstFailure(f) ==
  LET bad == {i \in 1..Len(f) : ~f[i].ok} IN
  IF bad = {}
  THEN [exc |-> "",
        part_width |-> f[1].num, part_depth |-> f[2].num,
        part_height |-> f[3].num, spacing_width |-> f[4].num,
        spacing_depth |-> f[5].num, spacing_height |-> f[6].num]
  ELSE [exc |-> f[CHOOSE i \in bad : \A j \in bad : i <= j].exc,
        part_width |-> 0, part_depth |-> 0, part_height |-> 0,
        spacing_width |-> 0, spacing_depth |-> 0, spacing_height |-> 0]

\* lines 58-63 and 143-148: the six conversions, in the order of the code
ExtractDimensions(d) ==
  FirstFailure([i \in 1..Len(NumericKeys) |->
                  Float(Get(d, NumericKeys[i], Num(0)))])

\* PartsAlong without the cap of line 81
PartsAlongUncapped(chamber_depth, dims, effective_part_width, effective_part_depth, effective_part_height) ==
  IF effective_part_width = 0 \/ effective_part_depth = 0
     \/ effective_part_height = 0
  THEN [ok |-> FALSE, parts |-> NoParts]
  ELSE [ok |-> TRUE,
        parts |->
          [total |->
             FloorDiv(dims.effective_chamber_width, effective_part_width)
               * FloorDiv(chamber_depth, effective_part_depth)
               * FloorDiv(dims.effective_chamber_height, effective_part_height),
           width |-> FloorDiv(dims.effective_chamber_width, effective_part_width),
           depth |-> FloorDiv(chamber_depth, effective_part_depth),
           height |-> FloorDiv(dims.effective_chamber_height,
                               effective_part_height)]]

\* lines 72-86, given the three pitches
PartsAlong(chamber_depth, dims, effective_part_width, effective_part_depth, effective_part_height) ==
  IF effective_part_width = 0 \/ effective_part_depth = 0
     \/ effective_part_height = 0
  THEN [ok |-> FALSE, parts |-> NoParts]
  ELSE [ok |-> TRUE,
        parts |->
          [total |->
             FloorDiv(dims.effective_chamber_width, effective_part_width)
               * FloorDiv(chamber_depth, effective_part_depth)
               * Min(ShelfCap, FloorDiv(dims.effective_chamber_height,
                                        effective_part_height)),
           width |-> FloorDiv(dims.effective_chamber_width, effective_part_width),
           depth |-> FloorDiv(chamber_depth, effective_part_depth),
           height |-> Min(ShelfCap, FloorDiv(dims.effective_chamber_height,
                                             effective_part_height))]]

\* calculate_total_parts with the spacing taken off the part size
calculate_total_parts_minus(chamber_depth, dims) ==
  PartsAlong(chamber_depth, dims,
             dims.part_width - dims.spacing_width,
             dims.part_depth - dims.spacing_depth,
             dims.part_height - dims.spacing_height)

\* lines 70-86; dims holds the enclosing function's locals.  ok is FALSE
\* when a floor division by zero raises ZeroDivisionError.
calculate_total_parts(chamber_depth, dims) ==
  PartsAlong(chamber_depth, dims,
             dims.part_width + dims.spacing_width,
             dims.part_depth + dims.spacing_depth,
             dims.part_height + dims.spacing_height)

\* ExtendedDepth without the 300 mm
ExtendedDepthNone(effective_chamber_depth) == effective_chamber_depth

\* line 90: the chamber depth of the second computation
ExtendedDepth(effective_chamber_depth) ==
  effective_chamber_depth + ExtendedDepthBonus

\* What calculate_parts_fitting gives: ret is what the call returns or
\* raises, data the caller's dict as the call leaves it, locals the call's
\* local variables.
Outcome(r, d, l) == [ret |-> r, data |-> d, locals |-> l]

\* lines 89-99, given the two computations o and e
ReturnParts(d, dims, o, e) ==
  IF ~o.ok \/ ~e.ok
  THEN Outcome(Raise("ZeroDivisionError"), d, dims)
  ELSE Outcome(ReturnCounts(
                 [total_parts_original |-> o.parts.total,
                  total_parts_extended |-> e.parts.total,
                  parts_along_height_original |-> o.parts.height,
                  parts_along_height_extended |-> e.parts.height,
                  parts_along_width_original |-> o.parts.width,
                  parts_along_depth_original |-> o.parts.depth]),
               d,
               [dims EXCEPT !.reached = "counts",
                            !.original = o.parts, !.extended = e.parts])

\* lines 88-90
ComputeBoth(d, dims) ==
  ReturnParts(d, dims,
              calculate_total_parts(dims.effective_chamber_depth, dims),
              calculate_total_parts(ExtendedDepth(dims.effective_chamber_depth),
                                    dims))

\* lines 51-68, given the conversions x: a ValueError is caught and an error
\* returned, any other exception leaves the call; line 67 never finds a None
\* among six floats
WithDimensions(d, chamber, clearance, x) ==
  IF x.exc = "ValueError" THEN Outcome(ReturnError(MsgNumeric), d, NoLocals)
  ELSE IF x.exc /= "" THEN Outcome(Raise(x.exc), d, NoLocals)
  ELSE ComputeBoth(d,
         [reached |-> "dimensions",
          effective_chamber_width |-> chamber.width - clearance.width,
          effective_chamber_depth |-> chamber.depth - clearance.depth,
          effective_chamber_height |-> chamber.height - clearance.height,
          part_width |-> x.part_width, part_depth |-> x.part_depth,
          part_height |-> x.part_height,
          spacing_width |-> x.spacing_width,
          spacing_depth |-> x.spacing_depth,
          spacing_height |-> x.spacing_height,
          original |-> NoParts, extended |-> NoParts])

\* lines 44-65, given the dict as lines 48-49 leave it
WithSpacing(chamber, clearance, adj) ==
  IF adj.exc /= "" THEN Outcome(Raise(adj.exc), adj.data, NoLocals)
  ELSE WithDimensions(adj.data, chamber, clearance,
                      ExtractDimensions(adj.data))

\* lines 37-49, given the solvent field
WithSolvent(d, chamber, sv) ==
  IF sv.kind /= "str" THEN Outcome(Raise("AttributeError"), d, NoLocals)
  ELSE WithSpacing(chamber, ClearanceOf(Strip(sv.text)),
                   AdjustSpacing(d, Strip(sv.text)))

\* lines 26-43, given the chamber
WithChamber(d, chamber) ==
  IF ~chamber.known THEN Outcome(ReturnError(MsgMachineType), d, NoLocals)
  ELSE WithSolvent(d, chamber, Get(d, "solvent", Str(<<>>)))

\* line 25, given the machine_type field
WithMachineType(d, mt) ==
  IF mt.kind /= "str" THEN Outcome(Raise("AttributeError"), d, NoLocals)
  ELSE WithChamber(d, ChamberOf(Strip(mt.text)))

\* lines 5-99
calculate_parts_fitting(d) ==
  WithMachineType(d, Get(d, "machine_type", Str(<<>>)))

\* --------------------------------------------------- visualize_chamber_3d

VizKeys == {"total_parts_original", "total_parts_extended", "plot_status"}

\* range(n) mapped through f: the value at each index 0 .. n-1, in order
StartsOf(offset2, n, pitch) ==
  [i \in 1..n |-> offset2 + 2 * (i - 1) * pitch]

NoLayout ==
  [drawn |-> FALSE, chamber_width |-> 0, chamber_depth |-> 0,
   chamber_height |-> 0,
   parts_along_width |-> 0, parts_along_depth |-> 0, parts_along_height |-> 0,
   effective_part_width |-> 0, effective_part_depth |-> 0,
   effective_part_height |-> 0,
   x_offset2 |-> 0, y_offset2 |-> 0, z_offset2 |-> 0,
   x_start2 |-> <<>>, y_start2 |-> <<>>, z_start2 |-> <<>>]

\* lines 174-179, given the offsets: where the boxes start on each axis
\* (part (i, j, k) starts at x_start2[i+1], y_start2[j+1], z_start2[k+1])
Boxes(chamber, n, pitch, x_offset2, y_offset2, z_offset2) ==
  [drawn |-> TRUE, chamber_width |-> chamber.width,
   chamber_depth |-> chamber.depth, chamber_height |-> chamber.height,
   parts_along_width |-> n.width, parts_along_depth |-> n.depth,
   parts_along_height |-> n.height,
   effective_part_width |-> pitch.width,
   effective_part_depth |-> pitch.depth,
   effective_part_height |-> pitch.height,
   x_offset2 |-> x_offset2, y_offset2 |-> y_offset2, z_offset2 |-> z_offset2,
   x_start2 |-> StartsOf(x_offset2, n.width, pitch.width),
   y_start2 |-> StartsOf(y_offset2, n.depth, pitch.depth),
   z_start2 |-> StartsOf(z_offset2, n.height, pitch.height)]

\* lines 160-162: the offsets.  Every length here is doubled.
PlaceParts(chamber, clearance, n, pitch) ==
  Boxes(chamber, n, pitch,
        chamber.width - n.width * pitch.width,
        clearance.depth,
        clearance.height
          + ((chamber.height - clearance.height) - n.height * pitch.height))

VizOutcome(r, d, l, lay) == [ret |-> r, data |-> d, locals |-> l, layout |-> lay]

\* lines 150-241, given the counts c and the conversions x; the plotting
\* calls are left out
DrawAndReturn(result, chamber, clearance, c, x) ==
  VizOutcome(
    [kind |-> "return", exc |-> "", keys |-> VizKeys, error |-> "",
     plot_status |-> TRUE,
     counts |-> [NoCounts EXCEPT
                   !.total_parts_original = c.total_parts_original,
                   !.total_parts_extended = c.total_parts_extended]],
    result.data, result.locals,
    PlaceParts(chamber, clearance,
               [width |-> c.parts_along_width_original,
                depth |-> c.parts_along_depth_original,
                height |-> c.parts_along_height_original],
               [width |-> x.part_width + x.spacing_width,
                depth |-> x.part_depth + x.spacing_depth,
                height |-> x.part_height + x.spacing_height]))

\* lines 143-152, given the conversions x: they raise what float raises, and
\* an error dict has no counts to read
WithResultDimensions(result, chamber, clearance, x) ==
  IF x.exc /= ""
  THEN VizOutcome(Raise(x.exc), result.data, result.locals, NoLayout)
  ELSE IF "parts_along_width_original" \notin result.ret.keys
  THEN VizOutcome(Raise("KeyError"), result.data, result.locals, NoLayout)
  ELSE DrawAndReturn(result, chamber, clearance, result.ret.counts, x)

\* lines 140-148, given what calculate_parts_fitting did
WithResult(chamber, clearance, result) ==
  IF result.ret.kind = "raise"
  THEN VizOutcome(result.ret, result.data, result.locals, NoLayout)
  ELSE WithResultDimensions(result, chamber, clearance,
                            ExtractDimensions(result.data))

\* lines 124-140, given the solvent field
VizWithSolvent(d, chamber, sv) ==
  IF sv.kind /= "str"
  THEN VizOutcome(Raise("AttributeError"), d, NoLocals, NoLayout)
  ELSE WithResult(chamber, ClearanceOf(Strip(sv.text)),
                  calculate_parts_fitting(d))

\* lines 113-129, given the chamber
VizWithChamber(d, chamber) ==
  IF ~chamber.known
  THEN VizOutcome(Raise("ValueError"), d, NoLocals, NoLayout)
  ELSE VizWithSolvent(d, chamber, Get(d, "solvent", Str(<<>>)))

\* line 112, given the machine_type field
VizWithMachineType(d, mt) ==
  IF mt.kind /= "str"
  THEN VizOutcome(Raise("AttributeError"), d, NoLocals, NoLayout)
  ELSE VizWithChamber(d, ChamberOf(Strip(mt.text)))

\* lines 101-241
visualize_chamber_3d(d) ==
  VizWithMachineType(d, Get(d, "machine_type", Str(<<>>)))

\* ---------------------------------------------------------- the callers

MaxBadFields == 1

Present(v) == [present |-> TRUE, value |-> v]
Absent == [present |-> FALSE, value |-> NoneVal]

MachineTypeInputs ==
  {Absent, Present(Str(SF50)), Present(Str(SF100)),
   Present(Str(<<"S", "F", "7", "5">>)),
   Present(Str(<<" ", "S", "F", "5", "0", " ">>))}

SolventInputs == {Absent, Present(Str(<<>>)), Present(Str(PURE))}

PartWidths == {-10, 0, 50}
PartDepths == {0, 50}
PartHeights == {0, 20, 100}
SpacingWidths == {0, 10}
SpacingDepths == {0, 10}
SpacingHeights == {0, 30}

\* a field left out, None, a word, a number spelled as a string
BadInputs ==
  {Absent, Present(NoneVal), Present(Str(<<"a", "b", "c">>)),
   Present(Str(<<"6", "0">>))}

SpacingSteps == {10, 40}

EmptyDict == [k \in {} |-> NoneVal]

\* the dict holding the fields that are present
MakeInput(fields) ==
  [k \in {q \in DOMAIN fields : fields[q].present} |-> fields[k].value]

NumericFields(pw, pd, ph, sw, sd, sh) ==
  [part_width |-> Present(Num(pw)), part_depth |-> Present(Num(pd)),
   part_height |-> Present(Num(ph)), spacing_width |-> Present(Num(sw)),
   spacing_depth |-> Present(Num(sd)), spacing_height |-> Present(Num(sh))]

Fields(mt, sv, numeric) ==
  [k \in {"machine_type", "solvent"} \cup DOMAIN numeric |->
     IF k = "machine_type" THEN mt
     ELSE IF k = "solvent" THEN sv ELSE numeric[k]]

NumericKeySet == {NumericKeys[i] : i \in 1..Len(NumericKeys)}

Fresh(d) ==
  /\ input_data = d
  /\ arg = EmptyDict
  /\ ret = NoCall
  /\ locals = NoLocals
  /\ prev_arg = EmptyDict
  /\ prev_ret = NoCall
  /\ layout = NoLayout
  /\ op = "none"
  /\ prev_op = "none"
  /\ calls = 0

\* lines 244-253: a caller builds the dict, every field a number
InitNumeric ==
  \E mt \in MachineTypeInputs, sv \in SolventInputs,
     pw \in PartWidths, pd \in PartDepths, ph \in PartHeights,
     sw \in SpacingWidths, sd \in SpacingDepths, sh \in SpacingHeights :
    Fresh(MakeInput(Fields(mt, sv, NumericFields(pw, pd, ph, sw, sd, sh))))

\* lines 246-251: the numeric fields of the example input
ExampleNumeric == NumericFields(50, 50, 100, 10, 10, 30)

\* a caller builds the example's dict, but leaves out up to MaxBadFields of
\* the six numeric fields or gives them something that is no number
InitDamaged ==
  \E mt \in MachineTypeInputs, sv \in SolventInputs :
    \E badKeys \in {b \in SUBSET NumericKeySet :
                      Cardinality(b) \in 1..MaxBadFields} :
      \E bad \in [badKeys -> BadInputs] :
        Fresh(MakeInput(Fields(mt, sv,
                [k \in NumericKeySet |->
                   IF k \in badKeys THEN bad[k] ELSE ExampleNumeric[k]])))

Init == InitNumeric \/ InitDamaged

\* a caller calls calculate_parts_fitting(input_data)
Calculate ==
  /\ calls < MaxCalls
  /\ \E r \in {calculate_parts_fitting(input_data)} :
       /\ input_data' = r.data
       /\ ret' = r.ret
       /\ locals' = r.locals
  /\ arg' = input_data
  /\ prev_arg' = arg
  /\ prev_ret' = ret
  /\ op' = "calculate"
  /\ prev_op' = op
  /\ calls' = calls + 1
  /\ UNCHANGED layout

\* line 256: a caller calls visualize_chamber_3d(input_data)
Visualize ==
  /\ calls < MaxCalls
  /\ \E r \in {visualize_chamber_3d(input_data)} :
       /\ input_data' = r.data
       /\ ret' = r.ret
       /\ locals' = r.locals
       /\ layout' = r.layout
  /\ arg' = input_data
  /\ prev_arg' = arg
  /\ prev_ret' = ret
  /\ op' = "visualize"
  /\ prev_op' = op
  /\ calls' = calls + 1

Next == Calculate \/ Visualize

Spec == Init /\ [][Next]_vars

\* A caller comparing spacings: every field a number, and after a call a
\* new dict that repeats the one just passed with one spacing made larger.
Respace ==
  /\ op = "calculate"
  /\ calls < MaxCalls
  /\ \E k \in {"spacing_width", "spacing_depth", "spacing_height"},
        step \in SpacingSteps :
       input_data' = [arg EXCEPT ![k] = Num(arg[k].num + step)]
  /\ op' = "respace"
  /\ UNCHANGED <<arg, ret, locals, prev_arg, prev_ret, layout, prev_op, calls>>

NextRespace == Calculate \/ Respace

SpecRespace == InitNumeric /\ [][NextRespace]_vars

\* ------------------------------------------------------------ properties

\* what a caller passed, read off the dict
MachineOf(d) == Get(d, "machine_type", Str(<<>>)).text
SolventOf(d) == Get(d, "solvent", Str(<<>>)).text
AllNumbers(d) ==
  \A k \in NumericKeySet : k \in DOMAIN d /\ d[k].kind = "num"
NonNegative(d) == \A k \in NumericKeySet : d[k].num >= 0
KnownMachine(d) == Strip(MachineOf(d)) \in {SF50, SF100}
IsPure(d) == Strip(SolventOf(d)) = PURE
DepthOfMachine(d) == IF Strip(MachineOf(d)) = SF50 THEN 300 ELSE 600

IsExample(d, machine, solvent) ==
  /\ AllNumbers(d)
  /\ MachineOf(d) = machine
  /\ SolventOf(d) = solvent
  /\ d["part_width"].num = 50 /\ d["part_depth"].num = 50
  /\ d["part_height"].num = 100
  /\ d["spacing_width"].num = 10 /\ d["spacing_depth"].num = 10
  /\ d["spacing_height"].num = 30

ReturnedCounts(r) == r.kind = "return" /\ r.keys = CountKeys
ReturnedErrorOnly(r) ==
  r.kind = "return" /\ r.keys = {"error"} /\ r.error /= ""

\* C1: two calls of calculate_parts_fitting in succession on the same
\* input_data object give the same result.
C1_Idempotent ==
  (op = "calculate" /\ prev_op = "calculate") => ret = prev_ret

\* C2, as stated: for PURE only the clearance changes (100 mm); the pitch is
\* part size + the spacing supplied, the width and depth counts are
\* floor((chamber - 100) / (part + spacing)), and the SF50 example has
\* effective chamber (250,150,250) and pitch (60,60,130).
C2_PitchUnchanged ==
  (/\ op = "calculate"
   /\ KnownMachine(arg) /\ IsPure(arg)
   /\ AllNumbers(arg) /\ NonNegative(arg)
   /\ arg["part_width"].num + arg["spacing_width"].num > 0
   /\ arg["part_depth"].num + arg["spacing_depth"].num > 0
   /\ arg["part_height"].num + arg["spacing_height"].num > 0)
  =>
  (/\ ReturnedCounts(ret)
   /\ ret.counts.parts_along_width_original
        = (400 - 100) \div (arg["part_width"].num + arg["spacing_width"].num)
   /\ ret.counts.parts_along_depth_original
        = (DepthOfMachine(arg) - 100)
            \div (arg["part_depth"].num + arg["spacing_depth"].num)
   /\ (IsExample(arg, SF50, PURE) =>
         /\ locals.effective_chamber_width = 250
         /\ locals.effective_chamber_depth = 150
         /\ locals.effective_chamber_height = 250
         /\ locals.part_width + locals.spacing_width = 60
         /\ locals.part_depth + locals.spacing_depth = 60
         /\ locals.part_height + locals.spacing_height = 130))

\* C2, amended: for PURE the clearance is 100 mm on width, depth and height
\* and the width and depth spacings are each 10 mm more than supplied (the
\* height spacing is as supplied), so the width and depth counts are
\* floor((chamber - 100) / (part + spacing + 10)); the SF50 example has
\* effective chamber (300,200,300), pitch (70,70,130) and counts (4,2,2).
C2_PureWidensSpacing ==
  (/\ op = "calculate"
   /\ KnownMachine(arg) /\ IsPure(arg)
   /\ AllNumbers(arg) /\ NonNegative(arg)
   /\ arg["part_height"].num + arg["spacing_height"].num > 0)
  =>
  (/\ ReturnedCounts(ret)
   /\ locals.effective_chamber_width = 400 - 100
   /\ locals.effective_chamber_depth = DepthOfMachine(arg) - 100
   /\ locals.effective_chamber_height = 400 - 100
   /\ ret.counts.parts_along_width_original
        = (400 - 100)
            \div (arg["part_width"].num + arg["spacing_width"].num + 10)
   /\ ret.counts.parts_along_depth_original
        = (DepthOfMachine(arg) - 100)
            \div (arg["part_depth"].num + arg["spacing_depth"].num + 10)
   /\ ret.counts.parts_along_height_original
        = Min(5, (400 - 100)
                   \div (arg["part_height"].num + arg["spacing_height"].num))
   /\ (IsExample(arg, SF50, PURE) =>
         /\ locals.part_width + locals.spacing_width = 70
         /\ locals.part_depth + locals.spacing_depth = 70
         /\ locals.part_height + locals.spacing_height = 130
         /\ ret.counts.parts_along_width_original = 4
         /\ ret.counts.parts_along_depth_original = 2
         /\ ret.counts.parts_along_height_original = 2))

C2_Witness ==
  /\ op = "calculate"
  /\ IsExample(arg, SF50, PURE)
  /\ ReturnedCounts(ret)
  /\ ret.counts.total_parts_original = 16

\* C3: when part size + spacing is <= 0 on some axis, the call returns an
\* error value: it neither raises nor returns counts.
C3_NonPositivePitchIsError ==
  (/\ op = "calculate"
   /\ KnownMachine(arg) /\ AllNumbers(arg)
   /\ \/ arg["part_width"].num + arg["spacing_width"].num <= 0
      \/ arg["part_depth"].num + arg["spacing_depth"].num <= 0
      \/ arg["part_height"].num + arg["spacing_height"].num <= 0)
  => ReturnedErrorOnly(ret)

\* C4: when one of the six numeric fields is missing or is no number, the
\* call returns an error value, whatever the machine type and the solvent.
C4_BadFieldIsError ==
  (/\ op = "calculate"
   /\ KnownMachine(arg)
   /\ \E k \in NumericKeySet : k \notin DOMAIN arg \/ ~Float(arg[k]).ok)
  => ReturnedErrorOnly(ret)

\* C5, as stated: for every machine_type other than "SF50" and "SF100" the
\* call returns an error message and no count field.
C5_NotExactlyKnownIsError ==
  (op = "calculate" /\ MachineOf(arg) \notin {SF50, SF100})
  => (ReturnedErrorOnly(ret) /\ ret.error = MsgMachineType)

\* C5, amended: for every machine_type that, with the whitespace around it
\* removed, is neither "SF50" nor "SF100" (or is absent), the call returns
\* an error message and no count field.
C5_UnknownMachineIsError ==
  (op = "calculate" /\ ~KnownMachine(arg))
  => (/\ ReturnedErrorOnly(ret)
      /\ ret.error = MsgMachineType
      /\ ret.keys \cap CountKeys = {})

C5_Witness ==
  /\ op = "calculate"
  /\ MachineOf(arg) = <<"S", "F", "7", "5">>
  /\ AllNumbers(arg)
  /\ ret.keys = {"error"}

\* C6: with a solvent that is not PURE, non-negative dimensions and positive
\* pitch, the width and depth counts are floor((chamber - 50) / (part +
\* spacing)); the SF50 example gives (5,4,2) and 40, the SF100 one depth 9.
C6_CountsAreFloors ==
  (/\ op = "calculate"
   /\ KnownMachine(arg) /\ ~IsPure(arg)
   /\ AllNumbers(arg) /\ NonNegative(arg)
   /\ arg["part_width"].num + arg["spacing_width"].num > 0
   /\ arg["part_depth"].num + arg["spacing_depth"].num > 0
   /\ arg["part_height"].num + arg["spacing_height"].num > 0)
  =>
  (/\ ReturnedCounts(ret)
   /\ ret.counts.parts_along_width_original
        = (400 - 50) \div (arg["part_width"].num + arg["spacing_width"].num)
   /\ ret.counts.parts_along_depth_original
        = (DepthOfMachine(arg) - 50)
            \div (arg["part_depth"].num + arg["spacing_depth"].num)
   /\ (IsExample(arg, SF50, <<>>) =>
         /\ ret.counts.parts_along_width_original = 5
         /\ ret.counts.parts_along_depth_original = 4
         /\ ret.counts.parts_along_height_original = 2
         /\ ret.counts.total_parts_original = 40)
   /\ (IsExample(arg, SF100, <<>>) =>
         ret.counts.parts_along_depth_original = 9))

C6_Witness ==
  /\ op = "calculate"
  /\ IsExample(arg, SF50, <<>>)
  /\ ret.counts.total_parts_original = 40

\* C7: in every result of calculate_parts_fitting both height counts are at
\* most 5.
C7_HeightCapped ==
  (op = "calculate" /\ ReturnedCounts(ret))
  => (/\ ret.counts.parts_along_height_original <= 5
      /\ ret.counts.parts_along_height_extended <= 5)

C7_Witness ==
  /\ op = "calculate"
  /\ ReturnedCounts(ret)
  /\ locals.part_height + locals.spacing_height > 0
  /\ locals.effective_chamber_height
       \div (locals.part_height + locals.spacing_height) > 5
  /\ ret.counts.parts_along_height_original = 5

\* C8: of two inputs that differ only in one axis's spacing, larger in the
\* second (dimensions non-negative, pitch positive), the second has no more
\* parts along that axis than the first.
SpacingRaised(k) ==
  /\ arg[k].num > prev_arg[k].num
  /\ arg = [prev_arg EXCEPT ![k] = arg[k]]

C8_Monotone ==
  (/\ op = "calculate" /\ calls >= 2
   /\ AllNumbers(prev_arg) /\ NonNegative(prev_arg)
   /\ AllNumbers(arg) /\ NonNegative(arg)
   /\ prev_arg["part_width"].num + prev_arg["spacing_width"].num > 0
   /\ prev_arg["part_depth"].num + prev_arg["spacing_depth"].num > 0
   /\ prev_arg["part_height"].num + prev_arg["spacing_height"].num > 0
   /\ ReturnedCounts(prev_ret))
  =>
  (/\ SpacingRaised("spacing_width") =>
        /\ ReturnedCounts(ret)
        /\ ret.counts.parts_along_width_original
             <= prev_ret.counts.parts_along_width_original
   /\ SpacingRaised("spacing_depth") =>
        /\ ReturnedCounts(ret)
        /\ ret.counts.parts_along_depth_original
             <= prev_ret.counts.parts_along_depth_original
   /\ SpacingRaised("spacing_height") =>
        /\ ReturnedCounts(ret)
        /\ ret.counts.parts_along_height_original
             <= prev_ret.counts.parts_along_height_original)

C8_Witness ==
  /\ op = "calculate" /\ calls >= 2
  /\ AllNumbers(prev_arg) /\ NonNegative(prev_arg)
  /\ IsPure(arg)
  /\ SpacingRaised("spacing_depth")
  /\ ReturnedCounts(ret) /\ ReturnedCounts(prev_ret)
  /\ ret.counts.parts_along_depth_original
       < prev_ret.counts.parts_along_depth_original

\* C9: the extended total is the original width count times
\* floor((chamber depth + 300 - depth clearance) / depth pitch) times the
\* original height count, the width and height counts of the second
\* computation are those of the first, and for non-negative dimensions the
\* extended total is at least the original one.
C9_ExtendedDepthOnly ==
  (op = "calculate" /\ ReturnedCounts(ret))
  =>
  (/\ ret.counts.total_parts_extended
        = ret.counts.parts_along_width_original
            * FloorDiv(DepthOfMachine(arg) + 300
                         - (IF IsPure(arg) THEN 100 ELSE 50),
                       locals.part_depth + locals.spacing_depth)
            * ret.counts.parts_along_height_original
   /\ locals.extended.width = ret.counts.parts_along_width_original
   /\ locals.extended.height = ret.counts.parts_along_height_original
   /\ ret.counts.parts_along_height_extended
        = ret.counts.parts_along_height_original
   /\ (AllNumbers(arg) /\ NonNegative(arg)) =>
        ret.counts.total_parts_extended >= ret.counts.total_parts_original)

C9_Witness ==
  /\ op = "calculate"
  /\ IsExample(arg, SF50, <<>>)
  /\ ret.counts.total_parts_extended = 90
  /\ ret.counts.total_parts_original = 40

\* C10: in the layout the block of parts is centred on width and on depth:
\* each of the two offsets is (chamber dimension - count x pitch) / 2, and
\* the part at index i starts at offset + i x pitch.  (Lengths doubled.)
C10_CentredOnWidthAndDepth ==
  layout.drawn =>
    /\ layout.x_offset2
         = layout.chamber_width
             - layout.parts_along_width * layout.effective_part_width
    /\ layout.y_offset2
         = layout.chamber_depth
             - layout.parts_along_depth * layout.effective_part_depth
    /\ \A i \in 1..layout.parts_along_width :
         layout.x_start2[i]
           = layout.x_offset2 + 2 * (i - 1) * layout.effective_part_width
    /\ \A j \in 1..layout.parts_along_depth :
         layout.y_start2[j]
           = layout.y_offset2 + 2 * (j - 1) * layout.effective_part_depth

====
